---- MODULE Spec2Model ----
(***************************************************************************)
(* A model of src/main.cpp: a sharded in-memory key-value store (Shard,    *)
(* KVStore) driven by a pool of worker threads (ThreadPool) that consume   *)
(* Requests from a BlockingQueue.                                          *)
(*                                                                         *)
(* Threads are the caller of the pool (main) and the workers.  Every step  *)
(* of a thread that takes or releases a lock, or that touches the shared   *)
(* state under a lock, is one action.                                      *)
(***************************************************************************)
EXTENDS Integers, Sequences, FiniteSets, TLC

\* ---------------------------------------------------------------- bounds
MaxReq     == 2   \* submit calls the caller makes
MaxWorkers == 2   \* largest numThreads the pool is constructed with
MaxShards  == 2   \* largest shardCount the store is constructed with
HashMax    == 1   \* std::hash<std::string> values range over 0..HashMax

\* ------------------------------------------------------ program constants
NUM_SHARDS  == 4
NUM_WORKERS == 2

Keys   == {"", "a"}
Values == {"", "1"}

OpTypes == {"GET", "SET", "DEL"}

\* Request{type, key, value}; GET and DEL are constructed with value "".
Request == {[type |-> "GET", key |-> k, value |-> ""] : k \in Keys}
             \cup {[type |-> "DEL", key |-> k, value |-> ""] : k \in Keys}
             \cup {[type |-> "SET", key |-> k, value |-> v] : k \in Keys, v \in Values}

\* The six submit calls of main(), in order.
MainScript ==
  << [type |-> "SET", key |-> "a", value |-> "1"],
     [type |-> "SET", key |-> "b", value |-> "2"],
     [type |-> "GET", key |-> "a", value |-> ""],
     [type |-> "DEL", key |-> "a", value |-> ""],
     [type |-> "GET", key |-> "a", value |-> ""],
     [type |-> "GET", key |-> "b", value |-> ""] >>

MainKeys == {MainScript[i].key : i \in 1..Len(MainScript)}

\* A default-constructed Request (workerLoop's local before the first pop).
NoReq == [id |-> 0, type |-> "GET", key |-> "", value |-> ""]

VARIABLES
  shardCount,   \* KVStore::shards.size()
  workerCount,  \* ThreadPool::workers.size()
  hashOf,       \* std::hash<std::string>, fixed for the run
  q,            \* BlockingQueue::q
  stopped,      \* BlockingQueue::stopped
  m,            \* BlockingQueue::m is locked
  cvWaiters,    \* threads blocked in BlockingQueue::cv
  data,         \* data[s]: Shard::data of shard s (a function on its keys)
  shardM,       \* shardM[s]: Shard::m, exclusive flag and shared count
  wpc,          \* wpc[w]: position of worker w in workerLoop
  req,          \* req[w]: workerLoop's local req
  val,          \* val[w]: the optional returned by kv.get, <<>> is nullopt
  endSeen,      \* history: w's pop call began after a pop returned false
  mainpc,       \* position of the caller of the pool
  cur,          \* the item the caller is pushing
  joinIdx,      \* index of the worker that shutdown() joins next
  joinable,     \* joinable[w]: std::thread::joinable() of workers[w]
  threw,        \* an exception has left shutdown()
  shutdownCalls,\* calls of ThreadPool::shutdown() so far
  otherpc,      \* position of a second thread that calls submit
  othercur,     \* the item the second thread is pushing
  submitted,    \* history: the requests submitted, in order of the calls
  nBefore,      \* history: how many were submitted before the first shutdown()
  popOrder,     \* history: ids in the order pop returned them
  applied,      \* history: applied[id] = Store operations done for request id
  logged        \* history: logged[id] = the line written for request id

config  == <<shardCount, workerCount, hashOf>>
qvars   == <<q, stopped, m, cvWaiters>>
svars   == <<data, shardM>>
wvars   == <<wpc, req, val, endSeen>>
ovars   == <<otherpc, othercur>>
mvars   == <<mainpc, cur, joinIdx, joinable, threw, shutdownCalls>>
hvars   == <<submitted, nBefore, popOrder, applied, logged>>
vars    == <<shardCount, workerCount, hashOf, q, stopped, m, cvWaiters, data,
             shardM, wpc, req, val, endSeen, mainpc, cur, joinIdx, joinable,
             threw, shutdownCalls, otherpc, othercur, submitted, nBefore,
             popOrder, applied, logged>>

\* worker ids any pool of the model may use; Workers are those of this pool
WorkerIds == 0 .. ((IF MaxWorkers > NUM_WORKERS THEN MaxWorkers ELSE NUM_WORKERS) - 1)
Workers == 0 .. (workerCount - 1)
Shards  == 0 .. (shardCount - 1)

\* ------------------------------------------------------------ pure parts

\* std::optional<std::string>: <<>> is nullopt, <<v>> holds v.
Nullopt == <<>>

\* a routing that uses the key's length in place of its hash
ShardIndexByLength(key) == Len(key) % shardCount

\* KVStore::shard: hash(key) % shards.size()
ShardIndex(key) == hashOf[key] % shardCount

\* Shard::get on the map d (under the shared lock)
ShardGet(d, key) == IF key \in DOMAIN d THEN <<d[key]>> ELSE Nullopt

\* a set that treats an empty value as "no value" and drops the key
ShardSetDropsEmpty(d, key, value) ==
  IF value = ""
    THEN [k \in (DOMAIN d) \ {key} |-> d[k]]
    ELSE [k \in (DOMAIN d) \cup {key} |-> IF k = key THEN value ELSE d[k]]

\* Shard::set on the map d: data[key] = value
ShardSet(d, key, value) ==
  [k \in (DOMAIN d) \cup {key} |-> IF k = key THEN value ELSE d[k]]

\* a del that marks the key with an empty value instead of erasing it
ShardDelTombstone(d, key) ==
  [k \in (DOMAIN d) \cup {key} |-> IF k = key THEN "" ELSE d[k]]

\* Shard::del on the map d: data.erase(key)
ShardDel(d, key) == [k \in (DOMAIN d) \ {key} |-> d[k]]

\* KVStore::get as a function of the current state
StoreGet(key) == ShardGet(data[ShardIndex(key)], key)

\* The text workerLoop writes after "GET <key> = "
GetText(v) == IF v # Nullopt THEN v[1] ELSE "<null>"

\* The line workerLoop writes for request r handled by worker id
LogLine(id, r, v) ==
  [worker |-> id, op |-> r.type, key |-> r.key,
   text |-> IF r.type = "GET" THEN GetText(v) ELSE ""]

\* std::shared_mutex: a shared lock can be taken when no thread holds it
\* exclusively
CanLockShared(mx) == ~mx.excl

\* an exclusive lock that does not wait for the readers to leave
CanLockExclusiveIgnoresReaders(mx) == ~mx.excl

\* std::shared_mutex: an exclusive lock can be taken when no thread holds
\* it, shared or exclusive
CanLockExclusive(mx) == ~mx.excl /\ mx.shared = 0

\* shared_lock's constructor and destructor
LockShared(mx) == [mx EXCEPT !.shared = @ + 1]

\* a get that returns without releasing its shared lock
UnlockSharedKeeps(mx) == mx

UnlockShared(mx) == [mx EXCEPT !.shared = @ - 1]

\* unique_lock's constructor and destructor
LockExclusive(mx) == [mx EXCEPT !.excl = TRUE]

UnlockExclusive(mx) == [mx EXCEPT !.excl = FALSE]

\* history helper: one more Store operation done for request id
Bump(f, id) ==
  [i \in (DOMAIN f) \cup {id} |->
     IF i # id THEN f[i] ELSE IF i \in DOMAIN f THEN f[i] + 1 ELSE 1]

\* ------------------------------------------------------------------ Init

InitCommon ==
  /\ q = <<>>
  /\ stopped = FALSE
  /\ m = FALSE
  /\ cvWaiters = {}
  /\ data = [s \in Shards |-> <<>>]
  /\ shardM = [s \in Shards |-> [excl |-> FALSE, shared |-> 0]]
  /\ wpc = [w \in Workers |-> "pop_lock"]
  /\ req = [w \in Workers |-> NoReq]
  /\ val = [w \in Workers |-> Nullopt]
  /\ endSeen = [w \in Workers |-> FALSE]
  /\ mainpc = "ready"
  /\ cur = NoReq
  /\ joinIdx = 0
  /\ joinable = [w \in Workers |-> TRUE]
  /\ threw = FALSE
  /\ shutdownCalls = 0
  /\ otherpc = "ready"
  /\ othercur = NoReq
  /\ submitted = <<>>
  /\ nBefore = 0
  /\ popOrder = <<>>
  /\ applied = <<>>
  /\ logged = <<>>

\* Any pool and store within the bounds, any hash function on the keys.
Init ==
  /\ shardCount \in 1..MaxShards
  /\ workerCount \in 1..MaxWorkers
  /\ hashOf \in [Keys -> 0..HashMax]
  /\ InitCommon

\* main(): KVStore store(NUM_SHARDS); ThreadPool pool(NUM_WORKERS, store);
InitMain ==
  /\ shardCount = NUM_SHARDS
  /\ workerCount = NUM_WORKERS
  /\ hashOf \in [MainKeys -> 0..HashMax]
  /\ InitCommon

\* main()'s store and pool, with the hash of every key a caller may use.
InitPool ==
  /\ shardCount = NUM_SHARDS
  /\ workerCount = NUM_WORKERS
  /\ hashOf \in [Keys -> 0..HashMax]
  /\ InitCommon

\* ------------------------------------------------ BlockingQueue, caller

\* ThreadPool::submit -> BlockingQueue::push: lock_guard lock(m)
Submit(r) ==
  /\ mainpc \in {"ready", "sd_returned", "idle"}
  /\ ~m
  /\ m' = TRUE
  /\ cur' = [id |-> Len(submitted) + 1, type |-> r.type, key |-> r.key,
             value |-> r.value]
  /\ submitted' = Append(submitted, r)
  /\ mainpc' = "push_locked"
  /\ UNCHANGED <<config, ovars, q, stopped, cvWaiters, svars, wvars, joinIdx,
                 joinable, threw, shutdownCalls, nBefore, popOrder, applied,
                 logged>>

\* push: q.push(std::move(item)) leaves item moved-from; lock_guard released
PushEnqueue ==
  /\ mainpc = "push_locked"
  /\ q' = Append(q, cur)
  /\ cur' = NoReq
  /\ m' = FALSE
  /\ mainpc' = "push_notify"
  /\ UNCHANGED <<config, ovars, stopped, cvWaiters, svars, wvars, joinIdx,
                 joinable, threw, shutdownCalls, hvars>>

\* a push that forgets to notify
NotifyNobody(waiters) == {waiters}

\* cv.notify_one(): the sets of threads that may stay blocked; one waiter,
\* any one, is woken when there is one
NotifyOne(waiters) ==
  IF waiters = {} THEN {waiters} ELSE {waiters \ {w} : w \in waiters}

\* push: cv.notify_one(); push and submit return
PushNotify ==
  /\ mainpc = "push_notify"
  /\ cvWaiters' \in NotifyOne(cvWaiters)
  /\ mainpc' = IF shutdownCalls = 0 THEN "ready" ELSE "idle"
  /\ UNCHANGED <<config, ovars, q, stopped, m, svars, wvars, cur, joinIdx, joinable,
                 threw, shutdownCalls, hvars>>

\* ThreadPool::shutdown -> BlockingQueue::shutdown: lock_guard lock(m)
Shutdown ==
  /\ mainpc \in {"ready", "sd_returned", "idle"}
  /\ ~m
  /\ m' = TRUE
  /\ shutdownCalls' = shutdownCalls + 1
  /\ nBefore' = IF shutdownCalls = 0 THEN Len(submitted) ELSE nBefore
  /\ mainpc' = "sd_locked"
  /\ UNCHANGED <<config, ovars, q, stopped, cvWaiters, svars, wvars, cur, joinIdx,
                 joinable, threw, submitted, popOrder, applied, logged>>

\* BlockingQueue::shutdown: stopped = true; the lock_guard is released
ShutdownSetStopped ==
  /\ mainpc = "sd_locked"
  /\ stopped' = TRUE
  /\ m' = FALSE
  /\ mainpc' = "sd_notify"
  /\ UNCHANGED <<config, ovars, q, cvWaiters, svars, wvars, cur, joinIdx, joinable,
                 threw, shutdownCalls, hvars>>

\* a shutdown that wakes one waiter only, as notify_one would
NotifyAllWakesOne(waiters) ==
  IF waiters = {} THEN {} ELSE waiters \ {CHOOSE w \in waiters : TRUE}

\* cv.notify_all(): no thread stays blocked in the wait
NotifyAll(waiters) == {}

\* BlockingQueue::shutdown: cv.notify_all(); then the join loop starts
ShutdownNotifyAll ==
  /\ mainpc = "sd_notify"
  /\ cvWaiters' = NotifyAll(cvWaiters)
  /\ joinIdx' = 0
  /\ mainpc' = "sd_join"
  /\ UNCHANGED <<config, ovars, q, stopped, m, svars, wvars, cur, joinable, threw,
                 shutdownCalls, hvars>>

\* ThreadPool::shutdown: t.join() of workers[joinIdx].  join() of a thread
\* that is not joinable throws std::system_error, which nothing catches.
Join ==
  /\ mainpc = "sd_join"
  /\ joinIdx < workerCount
  /\ IF joinable[joinIdx]
       THEN /\ wpc[joinIdx] = "terminated"
            /\ joinable' = [joinable EXCEPT ![joinIdx] = FALSE]
            /\ joinIdx' = joinIdx + 1
            /\ UNCHANGED <<threw, mainpc>>
       ELSE /\ threw' = TRUE
            /\ mainpc' = "aborted"
            /\ UNCHANGED <<joinable, joinIdx>>
  /\ UNCHANGED <<config, ovars, qvars, svars, wvars, cur, shutdownCalls, hvars>>

\* ThreadPool::shutdown: the join loop is over, shutdown returns
ShutdownReturn ==
  /\ mainpc = "sd_join"
  /\ joinIdx = workerCount
  /\ mainpc' = "sd_returned"
  /\ UNCHANGED <<config, ovars, qvars, svars, wvars, cur, joinIdx, joinable, threw,
                 shutdownCalls, hvars>>

\* A second thread calls ThreadPool::submit -> BlockingQueue::push while the
\* first is anywhere, also inside shutdown(): lock_guard lock(m)
OtherSubmit(r) ==
  /\ otherpc = "ready"
  /\ ~m
  /\ m' = TRUE
  /\ othercur' = [id |-> Len(submitted) + 1, type |-> r.type, key |-> r.key,
                  value |-> r.value]
  /\ submitted' = Append(submitted, r)
  /\ otherpc' = "push_locked"
  /\ UNCHANGED <<config, q, stopped, cvWaiters, svars, wvars, mvars, nBefore,
                 popOrder, applied, logged>>

\* push by the second thread: q.push(std::move(item)); lock_guard released
OtherEnqueue ==
  /\ otherpc = "push_locked"
  /\ q' = Append(q, othercur)
  /\ othercur' = NoReq
  /\ m' = FALSE
  /\ otherpc' = "push_notify"
  /\ UNCHANGED <<config, stopped, cvWaiters, svars, wvars, mvars, hvars>>

\* push by the second thread: cv.notify_one(); push and submit return
OtherNotify ==
  /\ otherpc = "push_notify"
  /\ cvWaiters' \in NotifyOne(cvWaiters)
  /\ otherpc' = "ready"
  /\ othercur' = othercur
  /\ UNCHANGED <<config, q, stopped, m, svars, wvars, mvars, hvars>>

\* ----------------------------------------------- BlockingQueue, workers

\* pop: unique_lock lock(m)
PopLock(w) ==
  /\ w \in Workers
  /\ wpc[w] = "pop_lock"
  /\ ~m
  /\ m' = TRUE
  /\ endSeen' = [endSeen EXCEPT ![w] = \E v \in Workers : wpc[v] = "terminated"]
  /\ wpc' = [wpc EXCEPT ![w] = "pop_pred"]
  /\ UNCHANGED <<config, ovars, q, stopped, cvWaiters, svars, req, val, mvars, hvars>>

\* pop: cv.wait(lock, pred) evaluates pred under the lock; when it is false
\* the wait releases the lock and blocks the thread in one step.
PopPred(w) ==
  /\ w \in Workers
  /\ UNCHANGED endSeen
  /\ wpc[w] = "pop_pred"
  /\ IF stopped \/ q # <<>>
       THEN /\ wpc' = [wpc EXCEPT ![w] = "pop_take"]
            /\ UNCHANGED <<m, cvWaiters>>
       ELSE /\ m' = FALSE
            /\ cvWaiters' = cvWaiters \cup {w}
            /\ wpc' = [wpc EXCEPT ![w] = "pop_wait"]
  /\ UNCHANGED <<config, ovars, q, stopped, svars, req, val, mvars, hvars>>

\* pop: a notified thread leaves the wait by taking the lock again
PopWake(w) ==
  /\ w \in Workers
  /\ UNCHANGED endSeen
  /\ wpc[w] = "pop_wait"
  /\ w \notin cvWaiters
  /\ ~m
  /\ m' = TRUE
  /\ wpc' = [wpc EXCEPT ![w] = "pop_pred"]
  /\ UNCHANGED <<config, ovars, q, stopped, cvWaiters, svars, req, val, mvars, hvars>>

\* condition_variable::wait may return with no notification
SpuriousWake(w) ==
  /\ w \in Workers
  /\ wpc[w] = "pop_wait"
  /\ w \in cvWaiters
  /\ cvWaiters' = cvWaiters \ {w}
  /\ UNCHANGED <<config, ovars, q, stopped, m, svars, wvars, mvars, hvars>>

\* pop returns false when it finds the queue stopped without checking that
\* it is empty (a plausible slip of the test at the top of pop)
PopEndsOnStop(isStopped, queue) == isStopped

\* pop: if (stopped && q.empty()) return false
PopEnds(isStopped, queue) == isStopped /\ queue = <<>>

\* a pop that takes the newest item instead of the oldest
PopBack(queue) ==
  [item |-> queue[Len(queue)], rest |-> SubSeq(queue, 1, Len(queue) - 1)]

\* a pop that hands out the front item and leaves it in the queue
PopFrontStays(queue) == [item |-> Head(queue), rest |-> queue]

\* pop: item = std::move(q.front()); q.pop()
PopFront(queue) == [item |-> Head(queue), rest |-> Tail(queue)]

\* a loop that goes on to the switch whatever pop returned
AfterPopIgnoresEnd(ok) == "switch"

\* workerLoop: while (queue.pop(req)) { switch ... } : where the worker goes
\* when pop returns ok
AfterPop(ok) == IF ok THEN "switch" ELSE "terminated"

\* pop: after the wait, return false or move the front out; lock released
PopTake(w) ==
  /\ w \in Workers
  /\ wpc[w] = "pop_take"
  /\ m' = FALSE
  /\ endSeen' = [endSeen EXCEPT ![w] = FALSE]
  /\ IF PopEnds(stopped, q)
       THEN /\ wpc' = [wpc EXCEPT ![w] = AfterPop(FALSE)]
            /\ UNCHANGED <<q, req, popOrder>>
       ELSE /\ req' = [req EXCEPT ![w] = PopFront(q).item]
            /\ q' = PopFront(q).rest
            /\ popOrder' = Append(popOrder, PopFront(q).item.id)
            /\ wpc' = [wpc EXCEPT ![w] = AfterPop(TRUE)]
  /\ UNCHANGED <<config, ovars, stopped, cvWaiters, svars, val, mvars, submitted,
                 nBefore, applied, logged>>

\* ------------------------------------------------- workerLoop's body

\* case GET: kv.get -> Shard::get: shared_lock lock(m)
GetLock(w) ==
  /\ w \in Workers
  /\ UNCHANGED endSeen
  /\ wpc[w] = "switch"
  /\ req[w].type = "GET"
  /\ LET s == ShardIndex(req[w].key) IN
       /\ CanLockShared(shardM[s])
       /\ shardM' = [shardM EXCEPT ![s] = LockShared(@)]
  /\ wpc' = [wpc EXCEPT ![w] = "get_locked"]
  /\ UNCHANGED <<config, ovars, qvars, data, req, val, mvars, hvars>>

\* Shard::get: data.find(key), return; the shared_lock is released
GetRead(w) ==
  /\ w \in Workers
  /\ UNCHANGED endSeen
  /\ wpc[w] = "get_locked"
  /\ LET s == ShardIndex(req[w].key) IN
       /\ val' = [val EXCEPT ![w] = ShardGet(data[s], req[w].key)]
       /\ shardM' = [shardM EXCEPT ![s] = UnlockShared(@)]
  /\ applied' = Bump(applied, req[w].id)
  /\ wpc' = [wpc EXCEPT ![w] = "log"]
  /\ UNCHANGED <<config, ovars, qvars, data, req, mvars, submitted, nBefore,
                 popOrder, logged>>

\* case SET: kv.set -> Shard::set: unique_lock lock(m)
SetLock(w) ==
  /\ w \in Workers
  /\ UNCHANGED endSeen
  /\ wpc[w] = "switch"
  /\ req[w].type = "SET"
  /\ LET s == ShardIndex(req[w].key) IN
       /\ CanLockExclusive(shardM[s])
       /\ shardM' = [shardM EXCEPT ![s] = LockExclusive(@)]
  /\ wpc' = [wpc EXCEPT ![w] = "set_locked"]
  /\ UNCHANGED <<config, ovars, qvars, data, req, val, mvars, hvars>>

\* Shard::set: data[key] = value; the unique_lock is released
SetWrite(w) ==
  /\ w \in Workers
  /\ UNCHANGED endSeen
  /\ wpc[w] = "set_locked"
  /\ LET s == ShardIndex(req[w].key) IN
       /\ data' = [data EXCEPT ![s] = ShardSet(@, req[w].key, req[w].value)]
       /\ shardM' = [shardM EXCEPT ![s] = UnlockExclusive(@)]
  /\ applied' = Bump(applied, req[w].id)
  /\ wpc' = [wpc EXCEPT ![w] = "log"]
  /\ UNCHANGED <<config, ovars, qvars, req, val, mvars, submitted, nBefore,
                 popOrder, logged>>

\* case DEL: kv.del -> Shard::del: unique_lock lock(m)
DelLock(w) ==
  /\ w \in Workers
  /\ UNCHANGED endSeen
  /\ wpc[w] = "switch"
  /\ req[w].type = "DEL"
  /\ LET s == ShardIndex(req[w].key) IN
       /\ CanLockExclusive(shardM[s])
       /\ shardM' = [shardM EXCEPT ![s] = LockExclusive(@)]
  /\ wpc' = [wpc EXCEPT ![w] = "del_locked"]
  /\ UNCHANGED <<config, ovars, qvars, data, req, val, mvars, hvars>>

\* Shard::del: data.erase(key); the unique_lock is released
DelErase(w) ==
  /\ w \in Workers
  /\ UNCHANGED endSeen
  /\ wpc[w] = "del_locked"
  /\ LET s == ShardIndex(req[w].key) IN
       /\ data' = [data EXCEPT ![s] = ShardDel(@, req[w].key)]
       /\ shardM' = [shardM EXCEPT ![s] = UnlockExclusive(@)]
  /\ applied' = Bump(applied, req[w].id)
  /\ wpc' = [wpc EXCEPT ![w] = "log"]
  /\ UNCHANGED <<config, ovars, qvars, req, val, mvars, submitted, nBefore,
                 popOrder, logged>>

\* std::cout << "[Worker id] ..." ; break; back to while (queue.pop(req)).
\* val goes out of scope; req is not read again before pop overwrites it, so
\* its old content is dropped here.
WriteLog(w) ==
  /\ w \in Workers
  /\ UNCHANGED endSeen
  /\ wpc[w] = "log"
  /\ logged' = [i \in (DOMAIN logged) \cup {req[w].id} |->
                  IF i = req[w].id THEN LogLine(w, req[w], val[w]) ELSE logged[i]]
  /\ val' = [val EXCEPT ![w] = Nullopt]
  /\ req' = [req EXCEPT ![w] = NoReq]
  /\ wpc' = [wpc EXCEPT ![w] = "pop_lock"]
  /\ UNCHANGED <<config, ovars, qvars, svars, mvars, submitted, nBefore,
                 popOrder, applied>>

\* one step of worker w
workerLoop(w) ==
  \/ PopLock(w) \/ PopPred(w) \/ PopWake(w) \/ PopTake(w)
  \/ GetLock(w) \/ GetRead(w)
  \/ SetLock(w) \/ SetWrite(w)
  \/ DelLock(w) \/ DelErase(w)
  \/ WriteLog(w)

\* a step of the call the caller is in
CallStep ==
  \/ PushEnqueue \/ PushNotify
  \/ ShutdownSetStopped \/ ShutdownNotifyAll \/ Join \/ ShutdownReturn

\* ------------------------------------------------------------- the caller

\* any caller: a submit of any request, within the bound
CallSubmit == Len(submitted) < MaxReq /\ \E r \in Request : Submit(r)

\* any caller: a call of shutdown(), the first or a later one
CallShutdown == shutdownCalls < 2 /\ Shutdown

\* main(): the next pool.submit of the six
MainSubmit ==
  /\ mainpc = "ready"
  /\ Len(submitted) < Len(MainScript)
  /\ Submit(MainScript[Len(submitted) + 1])

\* main(): pool.shutdown() after the six submits
MainShutdown ==
  /\ mainpc = "ready"
  /\ Len(submitted) = Len(MainScript)
  /\ Shutdown

Next ==
  \/ CallSubmit
  \/ CallShutdown
  \/ CallStep
  \/ \E w \in WorkerIds : workerLoop(w)
  \/ \E w \in WorkerIds : SpuriousWake(w)

NextMain ==
  \/ MainSubmit
  \/ MainShutdown
  \/ CallStep
  \/ \E w \in WorkerIds : workerLoop(w)
  \/ \E w \in WorkerIds : SpuriousWake(w)

\* any second caller: a submit of any request, within the bound
OtherCallSubmit == Len(submitted) < MaxReq /\ \E r \in Request : OtherSubmit(r)

NextTwoCallers ==
  \/ Next
  \/ OtherCallSubmit
  \/ OtherEnqueue
  \/ OtherNotify

\* Any caller, any pool and store within the bounds.
Spec == Init /\ [][Next]_vars

\* The program main() runs.
SpecMain == InitMain /\ [][NextMain]_vars

\* main()'s pool and store used by two threads: one calls submit and
\* shutdown as in Spec, the other calls submit at any time.
SpecTwoCallers == InitPool /\ [][NextTwoCallers]_vars

\* Any caller of main()'s pool under fair scheduling: a thread that can take a step of the call
\* or loop it is in eventually takes one.  Starting a call is the caller's
\* choice and a wait need not return spuriously, so neither is fair.
FairSpec ==
  /\ InitPool
  /\ [][Next]_vars
  /\ WF_vars(CallStep)
  /\ \A w \in WorkerIds : WF_vars(workerLoop(w))

\* ---------------------------------------------------------------- claims

AllTerminated == \A w \in Workers : wpc[w] = "terminated"

Processing == {"switch", "get_locked", "set_locked", "del_locked", "log"}

\* C1: at the moment the first shutdown() returns, the queue is empty, every
\* worker has terminated (none is processing), and every request submitted
\* before the call has been applied to the Store.
C1_DrainOnShutdown ==
  mainpc = "sd_returned" =>
    /\ q = <<>>
    /\ \A w \in Workers : wpc[w] \notin Processing /\ wpc[w] = "terminated"
    /\ \A id \in 1..nBefore : id \in DOMAIN applied /\ applied[id] >= 1

\* C1 witness: shutdown() has returned after two submits to a pool of two.
C1_Witness ==
  /\ mainpc = "sd_returned"
  /\ nBefore >= 2
  /\ workerCount >= 2

\* C2: pops return the requests in the order of their pushes: ids are given
\* in push order, and the sequence of popped ids is strictly increasing.
C2_FifoDelivery ==
  \A i, j \in 1..Len(popOrder) : i < j => popOrder[i] < popOrder[j]

\* C2 witness: two workers hold two requests that were in the queue together.
C2_Witness ==
  \E w1, w2 \in Workers :
    /\ w1 # w2
    /\ wpc[w1] = "switch" /\ wpc[w2] = "switch"
    /\ req[w1].id = 1 /\ req[w2].id = 2
    /\ popOrder = <<1, 2>>

\* The effect on key k of the last Set or Delete of k among the first n
\* submitted requests (absent when there is none).
RECURSIVE LastWrite(_, _)
LastWrite(k, n) ==
  IF n = 0 THEN Nullopt
  ELSE LET r == submitted[n] IN
         IF r.key = k /\ r.type = "SET" THEN <<r.value>>
         ELSE IF r.key = k /\ r.type = "DEL" THEN Nullopt
         ELSE LastWrite(k, n - 1)

\* C3: after shutdown() returns, each key holds the effect of the Set or
\* Delete of that key that the single caller submitted last.
C3_LastSubmittedWriteWins ==
  mainpc = "sd_returned" =>
    \A k \in DOMAIN hashOf : StoreGet(k) = LastWrite(k, nBefore)

\* C4: after main()'s six submits and shutdown(), key a is absent and key b
\* holds "2".
C4_MainFinalState ==
  mainpc = "sd_returned" =>
    /\ StoreGet("a") = Nullopt
    /\ StoreGet("b") = <<"2">>

\* C5: in main()'s run the first Get(a), the third request, observes "1".
C5_MainFirstGetSeesOne ==
  3 \in DOMAIN logged => logged[3].text = "1"

\* C6: once the first shutdown() has been called, under fair scheduling every
\* worker reaches Terminated and shutdown() returns.
C6_ShutdownTerminates ==
  (mainpc = "sd_locked" /\ shutdownCalls = 1)
     ~> (mainpc = "sd_returned" /\ AllTerminated)

\* C6 witness: shutdown() has returned from a pool of two whose workers had
\* requests to drain.
C6_Witness ==
  /\ mainpc = "sd_returned"
  /\ workerCount = 2
  /\ AllTerminated
  /\ Len(popOrder) >= 1

\* C7: a second shutdown() after the first has returned raises no error.
C7_SecondShutdownNoError ==
  shutdownCalls >= 2 => ~threw /\ mainpc # "aborted"

\* C8: a request submitted after shutdown() has completed is never accepted
\* into the queue.
C8_LateSubmitRejected ==
  shutdownCalls >= 1 => \A i \in 1..Len(q) : q[i].id <= nBefore

\* C9: no request with an empty key is ever enqueued, held by a worker that
\* processes it, or applied to the Store.
C9_EmptyKeyRejected ==
  /\ \A i \in 1..Len(q) : q[i].key # ""
  /\ \A w \in Workers : wpc[w] \in Processing => req[w].key # ""
  /\ \A s \in Shards : "" \notin DOMAIN data[s]

\* C10: when a worker applies Set(k, "") with k non-empty, a get of k then
\* returns a present result holding "", not the absent result; and every
\* get returns present exactly when the key is in the map, whatever its value.
C10_EmptyValueIsValue ==
  [][\A w \in Workers :
       /\ (wpc[w] = "set_locked" /\ wpc'[w] = "log"
             /\ req[w].key # "" /\ req[w].value = "")
            => (StoreGet(req[w].key)' = <<"">> /\ StoreGet(req[w].key)' # Nullopt)
       /\ (wpc[w] = "get_locked" /\ wpc'[w] = "log")
            => LET d == data[ShardIndex(req[w].key)] IN
                 /\ (val'[w] # Nullopt) <=> (req[w].key \in DOMAIN d)
                 /\ (req[w].key \in DOMAIN d) => val'[w] = <<d[req[w].key]>>
    ]_vars

\* C10 witness: a worker's Get of a non-empty key has returned the present
\* empty string, which it logs as "" and not as <null>.
C10_Witness ==
  \E w \in Workers :
    /\ wpc[w] = "log"
    /\ req[w].type = "GET"
    /\ req[w].key # ""
    /\ val[w] = <<"">>
    /\ GetText(val[w]) # GetText(Nullopt)

\* workers inside Shard::set or Shard::del of shard s (holding its unique_lock)
WritersIn(s) ==
  {w \in Workers : /\ wpc[w] \in {"set_locked", "del_locked"}
                   /\ hashOf[req[w].key] % shardCount = s}

\* workers inside Shard::get of shard s (holding its shared_lock)
ReadersIn(s) ==
  {w \in Workers : /\ wpc[w] = "get_locked"
                   /\ hashOf[req[w].key] % shardCount = s}

\* C11: for every shard, either no worker is inside set/del, or exactly one
\* is and no worker is inside get.
C11_ReaderWriterExclusion ==
  \A s \in Shards :
    \/ WritersIn(s) = {}
    \/ Cardinality(WritersIn(s)) = 1 /\ ReadersIn(s) = {}

\* C11 witness: a worker is inside set/del of a shard while another worker
\* holds a request for the same shard and has to wait for the lock.
C11_Witness ==
  \E s \in Shards : \E w1, w2 \in Workers :
    /\ w1 \in WritersIn(s)
    /\ w2 # w1
    /\ wpc[w2] = "switch"
    /\ hashOf[req[w2].key] % shardCount = s

\* Two workers are inside get of the same shard at once.
TwoReadersInOneShard == \E s \in Shards : Cardinality(ReadersIn(s)) >= 2

\* C12: a pop call that begins after some pop has returned stream-end never
\* blocks in the wait and returns stream-end too, whatever was pushed in
\* between.
C12_StreamEndSticky ==
  [][\A w \in Workers :
       endSeen[w] =>
         /\ wpc'[w] # "pop_wait"
         /\ (wpc[w] = "pop_take" /\ wpc'[w] # "pop_take") => wpc'[w] = "terminated"
    ]_vars

\* the ids pop has returned so far
Popped == {popOrder[i] : i \in 1..Len(popOrder)}

\* C13: a pop returns stream-end only when the queue is stopped and empty,
\* and by the time any pop has returned stream-end every request pushed
\* before shutdown() set the stopped flag has been returned by a pop.
C13_NoStreamEndBeforeDrain ==
  [][/\ \A w \in Workers :
          (wpc[w] = "pop_take" /\ wpc'[w] = "terminated") => stopped /\ q = <<>>
     /\ (\E w \in Workers : wpc'[w] = "terminated") =>
          /\ stopped'
          /\ \A id \in 1..nBefore' : id \in Popped'
    ]_vars

\* C13 witness: a pop has returned stream-end after two requests, pushed
\* before the stop, were handed out, and the other worker is still at work.
C13_Witness ==
  \E w1, w2 \in Workers :
    /\ wpc[w1] = "terminated"
    /\ wpc[w2] \in Processing
    /\ nBefore >= 2
    /\ Popped = 1..nBefore

\* worker w is blocked in pop's wait although the wait's predicate holds
BlockedDespiteWork(w) ==
  /\ w \in Workers
  /\ wpc[w] = "pop_wait"
  /\ (q # <<>> \/ stopped)

\* C14: under fair scheduling no worker stays blocked in pop's wait for ever
\* while the queue is non-empty or stopped: whenever it is blocked in such a
\* state, it later has left the wait or the queue is empty and not stopped
\* again (another worker took the item).
C14_NoLostWakeup ==
  \A w \in WorkerIds : BlockedDespiteWork(w) ~> ~BlockedDespiteWork(w)

\* C14 witness: a worker is blocked in the wait, not yet notified, and an
\* item has just been pushed to the queue, which is not stopped.
C14_Witness ==
  \E w \in Workers :
    /\ wpc[w] = "pop_wait"
    /\ w \in cvWaiters
    /\ q # <<>>
    /\ ~stopped

\* C15: every pushed request is returned by at most one pop, is held by at
\* most one worker, and is applied to the Store at most once.
C15_SingleDelivery ==
  /\ \A i, j \in 1..Len(popOrder) : i # j => popOrder[i] # popOrder[j]
  /\ \A i \in 1..Len(q) : q[i].id \notin Popped
  /\ \A w1, w2 \in Workers :
       (w1 # w2 /\ wpc[w1] \in Processing /\ wpc[w2] \in Processing)
         => req[w1].id # req[w2].id
  /\ \A id \in DOMAIN applied : applied[id] = 1

\* C15 witness: two requests that were in the queue together while both
\* workers were popping have each been handled by a different worker.
C15_Witness ==
  /\ workerCount = 2
  /\ DOMAIN logged = {1, 2}
  /\ logged[1].worker # logged[2].worker
  /\ applied[1] = 1 /\ applied[2] = 1

\* the shards that hold key k
HoldersOf(k) == {s \in Shards : k \in DOMAIN data[s]}

\* C16: every key present in the Store is held by exactly one shard, the one
\* with index hash(key) mod shardCount, and a worker inside get/set/del for
\* a key holds the lock of that same shard; the hash and the shard count
\* never change.
C16_StableSingleShardRouting ==
  [][/\ hashOf' = hashOf /\ shardCount' = shardCount
     /\ \A k \in DOMAIN hashOf' :
          HoldersOf(k)' \in {{}, {hashOf'[k] % shardCount'}}
     /\ \A s \in Shards' : DOMAIN data'[s] \subseteq DOMAIN hashOf'
     /\ \A w \in Workers' :
          LET mx == shardM'[hashOf'[req'[w].key] % shardCount'] IN
            /\ wpc'[w] \in {"set_locked", "del_locked"} => mx.excl
            /\ wpc'[w] = "get_locked" => mx.shared >= 1
    ]_vars

\* C16 witness: two keys with different shard indices are both present,
\* each in its own shard.
C16_Witness ==
  \E k1, k2 \in DOMAIN hashOf :
    /\ hashOf[k1] % shardCount # hashOf[k2] % shardCount
    /\ HoldersOf(k1) = {hashOf[k1] % shardCount}
    /\ HoldersOf(k2) = {hashOf[k2] % shardCount}

\* C17: a get or a del of a key that is not present completes (the worker
\* goes on to its log line, no exception is raised), the get returns the
\* absent result, and no shard's mapping changes.
C17_AbsentKeyNotAnError ==
  [][\A w \in Workers :
       LET k == req[w].key
           absent == k \notin DOMAIN data[hashOf[k] % shardCount]
       IN /\ (wpc[w] = "get_locked" /\ wpc'[w] # "get_locked" /\ absent)
               => /\ wpc'[w] = "log"
                  /\ val'[w] = Nullopt
                  /\ data' = data
                  /\ ~threw'
          /\ (wpc[w] = "del_locked" /\ wpc'[w] # "del_locked" /\ absent)
               => /\ wpc'[w] = "log"
                  /\ data' = data
                  /\ ~threw'
    ]_vars

\* C17 witness: a worker has completed a del although no Set was ever
\* submitted, so the key it erased was absent; the Store is still empty.
C17_Witness ==
  \E w \in Workers :
    /\ wpc[w] = "log"
    /\ req[w].type = "DEL"
    /\ \A i \in 1..Len(submitted) : submitted[i].type # "SET"
    /\ \A s \in Shards : data[s] = <<>>

\* the state of the worker state machine a position of workerLoop is in
WorkerState(pc) ==
  IF pc \in Processing THEN "Processing"
  ELSE IF pc = "terminated" THEN "Terminated"
  ELSE "Running"

\* C18: every worker starts in Running; it goes from Running to Processing
\* only by a pop that hands it the front item, from Processing to Running
\* only after exactly one Store operation for that item and its log line,
\* from Running to Terminated only by a pop that finds the queue stopped and
\* empty; it never leaves Terminated, it makes no other change of state, and
\* every dequeue and every change of a shard is a step of a worker that has
\* not terminated.
C18_WorkerStateMachine ==
  /\ \A w \in Workers : WorkerState(wpc[w]) = "Running"
  /\ [][/\ \A w \in Workers :
          LET a == WorkerState(wpc[w])
              b == WorkerState(wpc'[w])
          IN /\ a # b =>
                  <<a, b>> \in {<<"Running", "Processing">>,
                               <<"Processing", "Running">>,
                               <<"Running", "Terminated">>}
             /\ (a = "Running" /\ b = "Processing") =>
                  /\ q # <<>>
                  /\ req'[w] = Head(q)
                  /\ q' = Tail(q)
             /\ (a = "Processing" /\ b = "Running") =>
                  /\ req[w].id \in DOMAIN applied' /\ applied'[req[w].id] = 1
                  /\ req[w].id \in DOMAIN logged'
             /\ (a = "Running" /\ b = "Terminated") => stopped /\ q = <<>>
             /\ a = "Terminated" =>
                  wpc'[w] = wpc[w] /\ req'[w] = req[w] /\ val'[w] = val[w]
        /\ (data' # data \/ shardM' # shardM \/ popOrder' # popOrder) =>
             \E w \in Workers : wpc'[w] # wpc[w] /\ wpc[w] # "terminated"
       ]_vars

\* C18 witness: one worker has terminated after handling a request while
\* the other is still processing one.
C18_Witness ==
  \E w1, w2 \in Workers :
    /\ wpc[w1] = "terminated"
    /\ \E id \in DOMAIN logged : logged[id].worker = w1
    /\ wpc[w2] \in Processing

\* shard s's lock is held by no thread
ShardFree(s) == ~shardM[s].excl /\ shardM[s].shared = 0

\* the positions of workerLoop inside BlockingQueue::pop
InPop == {"pop_lock", "pop_pred", "pop_wait", "pop_take"}

\* C19: the shard locks held are exactly those of the workers inside
\* Shard::get, set or del: each shard's shared count is the number of
\* workers inside its get and its exclusive flag is set exactly when a worker
\* is inside its set or del.  So a worker in pop or at its log line holds
\* none, and when every worker is in pop, at its log line, before the switch
\* or terminated, every shard lock is free.
C19_NoLockAcrossSuspension ==
  /\ \A s \in Shards :
       /\ shardM[s].shared = Cardinality(ReadersIn(s))
       /\ shardM[s].excl <=> WritersIn(s) # {}
  /\ (\A w \in Workers : wpc[w] \in InPop \cup {"log", "switch", "terminated"})
       => \A s \in Shards : ShardFree(s)

\* C19 witness: a worker is at its log line after a get, another is blocked
\* in pop's wait, and every shard lock is free.
C19_Witness ==
  \E w1, w2 \in Workers :
    /\ wpc[w1] = "log" /\ req[w1].type = "GET"
    /\ wpc[w2] = "pop_wait" /\ w2 \in cvWaiters
    /\ \A s \in Shards : ShardFree(s)

\* Reference model: one unsharded map to which the first n submitted
\* requests are applied one by one, in submission order.
RECURSIVE RefMap(_)
RefMap(n) ==
  IF n = 0 THEN <<>>
  ELSE LET prev == RefMap(n - 1)
           r    == submitted[n]
       IN IF r.type = "SET"
            THEN [k \in (DOMAIN prev) \cup {r.key} |->
                    IF k = r.key THEN r.value ELSE prev[k]]
          ELSE IF r.type = "DEL"
            THEN [k \in (DOMAIN prev) \ {r.key} |-> prev[k]]
          ELSE prev

\* Reference model: what request n, a Get, observes.
RefGet(n) ==
  LET prev == RefMap(n - 1)
      k    == submitted[n].key
  IN IF k \in DOMAIN prev THEN <<prev[k]>> ELSE <<>>

\* the Store's content as one map: the union of the shards' maps
StoreMap ==
  [k \in UNION {DOMAIN data[s] : s \in Shards} |->
     data[CHOOSE s \in Shards : k \in DOMAIN data[s]][k]]

\* C20: with one worker, every Get observes (and logs) what the reference
\* model's Get observes, and after shutdown() returns the Store's content is
\* the reference model's map after all requests submitted before the call.
C20_SingleWorkerSequential ==
  workerCount = 1 =>
    /\ \A w \in Workers :
         (wpc[w] = "log" /\ req[w].type = "GET") => val[w] = RefGet(req[w].id)
    /\ \A id \in DOMAIN logged :
         submitted[id].type = "GET" =>
           logged[id].text = (IF RefGet(id) = <<>> THEN "<null>" ELSE RefGet(id)[1])
    /\ mainpc = "sd_returned" => StoreMap = RefMap(nBefore)

\* C20 witness: a pool of one worker on a store of two shards has handled a
\* Set and then a Get of the same key, and shutdown() has returned.
C20_Witness ==
  /\ workerCount = 1
  /\ shardCount = 2
  /\ mainpc = "sd_returned"
  /\ nBefore = 2
  /\ submitted[1].type = "SET"
  /\ submitted[2].type = "GET"
  /\ submitted[1].key = submitted[2].key
  /\ logged[2].text = submitted[1].value

====
